---- MODULE Spec2Model ----
(***************************************************************************)
(* A model of social_sqlalchemy/storage.py: the SQLAlchemy storage mixins  *)
(* of python-social-auth.  The relational store is a set of committed      *)
(* tables; every request owns a session that holds its pending (unflushed) *)
(* work and its open transaction (flushed, uncommitted work).              *)
(***************************************************************************)
EXTENDS Integers, Sequences, FiniteSets, TLC

\* Primary keys handed out per table before the model stops inserting.
MaxId == 2

\* Concurrent requests, each with its own session.
Sessions == {"s1", "s2"}

Tables == {"user", "link", "nonce", "assoc", "code", "partial"}

\* Python's None and a present value.
None == {}
Some(x) == {x}
The(o) == CHOOSE x \in o : TRUE

VARIABLES
    COMMIT_SESSION,  \* the class attribute of SQLAlchemyMixin
    transaction,     \* TRUE when the transaction package was imported
    db,              \* committed rows, per table
    sess,            \* per session: pending work and open transaction
    nextId,          \* next primary key, per table
    pc,              \* per session: position inside a multi-step call
    serial,          \* no request has yet acted while another was in progress
    last             \* the call that just returned: op, args, result

vars == <<COMMIT_SESSION, transaction, db, sess, nextId, pc, serial, last>>

EmptyTables == [t \in Tables |-> {}]

\* A session with nothing pending and no open transaction.
\*   pnew: instances registered by add() and not flushed yet
\*   pdel: instances marked by delete() and not flushed yet
\*   ins, del: rows written / removed by the open transaction
CleanSession == [pnew |-> <<>>, pdel |-> EmptyTables,
                 ins |-> EmptyTables, del |-> EmptyTables]

Idle == [at |-> "idle"]

----------------------------------------------------------------------------
(* Text conversion: str(uid) for an integer uid.                           *)

Digit(d) == CASE d = 0 -> "0" [] d = 1 -> "1" [] d = 2 -> "2" [] d = 3 -> "3"
              [] d = 4 -> "4" [] d = 5 -> "5" [] d = 6 -> "6" [] d = 7 -> "7"
              [] d = 8 -> "8" [] OTHER -> "9"

RECURSIVE str(_)
str(n) == IF n < 0 THEN "-" \o str(0 - n)
          ELSE IF n < 10 THEN Digit(n)
          ELSE str(n \div 10) \o Digit(n % 10)

\* A uid as the caller passes it: text, or an integer.
IntUid(n) == [int |-> n]
StrUid(x) == [str |-> x]
IsString(uid) == DOMAIN uid = {"str"}

\* if not isinstance(uid, six.string_types): uid = str(uid)
CoerceUid(uid) == IF ~IsString(uid) THEN str(uid.int) ELSE uid.str

----------------------------------------------------------------------------
(* The relational store and the session, as the code drives them.          *)

\* The columns of each table's UniqueConstraint; a table without one is
\* keyed by its primary key alone.
Key(t, r) == CASE t = "link" -> <<r.provider, r.uid>>
               [] t = "nonce" -> <<r.server_url, r.timestamp, r.salt>>
               [] t = "assoc" -> <<r.server_url, r.handle>>
               [] t = "code" -> <<r.code, r.email>>
               [] OTHER -> <<r.id>>

\* The rows a session's queries see: committed rows, minus what its open
\* transaction removed, plus what it wrote.
View(d, ss, t) == {r \in d[t] : r.id \notin ss.del[t]} \cup ss.ins[t]

\* The state one call works on: the store, the caller's session, the key
\* counters, the session calls made so far, the exception in flight and the
\* instance last written.
Begin(s) == [db |-> db, ss |-> sess[s], nid |-> nextId, trace |-> <<>>,
             exc |-> "", obj |-> None]

Raise(m, e) == [m EXCEPT !.exc = e]

\* A failed flush rolls the session's transaction back.
Rollback(m) == [m EXCEPT !.ss = CleanSession]

\* INSERT (id = 0: a new instance) or UPDATE (a persistent instance) of one
\* row; the unique constraint is checked against the rows the session sees.
WriteRow(m, t, row) ==
    LET r == IF row.id = 0 THEN [row EXCEPT !.id = m.nid[t]] ELSE row
        others == {o \in View(m.db, m.ss, t) : o.id # r.id}
    IN  IF \E o \in others : Key(t, o) = Key(t, r)
        THEN Raise(Rollback(m), "IntegrityError")
        ELSE IF r \in View(m.db, m.ss, t)
        THEN [m EXCEPT !.obj = Some(r)]
        ELSE [m EXCEPT
                !.ss.ins[t] = {o \in @ : o.id # r.id} \cup {r},
                !.ss.del[t] = @ \cup {o.id : o \in {x \in m.db[t] : x.id = r.id}},
                !.nid[t] = IF row.id = 0 THEN @ + 1 ELSE @,
                !.obj = Some(r)]

\* What a flush does once it runs: write every pending instance in order,
\* then remove every instance marked deleted.
RECURSIVE FlushPending(_)
FlushPending(m) ==
    IF m.exc # "" THEN m
    ELSE IF m.ss.pnew # <<>>
    THEN FlushPending(WriteRow([m EXCEPT !.ss.pnew = Tail(@)],
                               Head(m.ss.pnew)[1], Head(m.ss.pnew)[2]))
    ELSE [m EXCEPT
            !.ss.del = [t \in Tables |->
                          @[t] \cup {r.id : r \in {x \in m.db[t] : x.id \in m.ss.pdel[t]}}],
            !.ss.ins = [t \in Tables |-> {r \in @[t] : r.id \notin m.ss.pdel[t]}],
            !.ss.pdel = EmptyTables]

\* session.add(instance)
SessionAdd(m, t, row) ==
    [m EXCEPT !.ss.pnew = Append(@, <<t, row>>), !.trace = Append(@, "add")]

\* session.delete(instance)
SessionDelete(m, t, row) ==
    [m EXCEPT !.ss.pdel[t] = @ \cup {row.id}, !.trace = Append(@, "delete")]

\* session.flush(); fo is what the environment lets it do: "ok", or a
\* failure raised before anything is written (an AssertionError leaves the
\* session as it was, any other failure rolls it back).
SessionFlush(m, fo) ==
    LET m1 == [m EXCEPT !.trace = Append(@, "flush")]
    IN  IF fo = "ok" THEN FlushPending(m1)
        ELSE IF fo = "AssertionError" THEN Raise(m1, fo)
        ELSE Raise(Rollback(m1), fo)

\* The effect of a commit, whoever issues it: flush, then make the open
\* transaction's work the committed state.
CommitWork(m) ==
    LET m1 == FlushPending(m)
    IN  IF m1.exc # "" THEN m1
        ELSE [m1 EXCEPT !.db = [t \in Tables |-> View(m1.db, m1.ss, t)],
                        !.ss = CleanSession]

\* session.commit()
SessionCommit(m) == CommitWork([m EXCEPT !.trace = Append(@, "commit")])

\* with transaction.manager as manager: manager.commit()
ManagerCommit(m) == CommitWork([m EXCEPT !.trace = Append(@, "manager.commit")])

\* A query makes the session flush its pending work first (autoflush) ...
Autoflush(m) == FlushPending(m)

\* ... and then filters the rows the session sees.
Query(m, t) == View(Autoflush(m).db, Autoflush(m).ss, t)

\* session.scalar(stmt) over the matching rows: the first row, or None when
\* there is none.  It raises nothing for an empty result.
scalar(rows) ==
    {[exc |-> "", val |-> v] :
        v \in IF rows = {} THEN {None} ELSE {Some(r) : r \in rows}}

\* Another session's uncommitted insert of the same unique key makes an
\* insert wait for that session to end its transaction.
Blocked(s, t, row) ==
    \E o \in Sessions \ {s} : \E r \in sess[o].ins[t] :
        /\ t \in {"link", "nonce", "assoc", "code"}
        /\ Key(t, r) = Key(t, row)

----------------------------------------------------------------------------
(* SQLAlchemyMixin                                                         *)

\* _flush with the fallback taken on any failure of the flush.
_flush_any_failure(m, fo) ==
    LET m1 == SessionFlush(m, fo)
    IN  IF m1.exc # ""
        THEN IF transaction
             THEN ManagerCommit([m1 EXCEPT !.exc = ""])
             ELSE SessionCommit([m1 EXCEPT !.exc = ""])
        ELSE m1

_flush(m, fo) ==
    LET m1 == SessionFlush(m, fo)
    IN  IF m1.exc = "AssertionError"
        THEN IF transaction
             THEN ManagerCommit([m1 EXCEPT !.exc = ""])
             ELSE SessionCommit([m1 EXCEPT !.exc = ""])
        ELSE m1

\* _save_instance that never takes the committing branch.
_save_instance_flush_only(m, t, instance, fo) ==
    _flush(SessionAdd(m, t, instance), fo)

_save_instance(m, t, instance, fo) ==
    LET m1 == SessionAdd(m, t, instance)
    IN  IF COMMIT_SESSION
        THEN LET m2 == SessionCommit(m1)
             IN  IF m2.exc # "" THEN m2 ELSE SessionFlush(m2, fo)
        ELSE _flush(m1, fo)

_new_instance(m, t, instance, fo) == _save_instance(m, t, instance, fo)

\* instance.save()
save(m, t, self, fo) == _save_instance(m, t, self, fo)

\* What a call leaves behind: the store, the caller's session, the counters
\* and the record of the call.
Return(s, m, op, args, ret) ==
    /\ db' = m.db
    /\ sess' = [sess EXCEPT ![s] = m.ss]
    /\ nextId' = m.nid
    /\ last' = [op |-> op, s |-> s, args |-> args,
                ret |-> IF m.exc = "" THEN ret ELSE None,
                exc |-> m.exc, trace |-> m.trace, obj |-> m.obj]
    /\ UNCHANGED <<COMMIT_SESSION, transaction>>

FlushOutcomes == {"ok", "AssertionError", "OperationalError"}

NoCall == [op |-> "init", s |-> "s1", args |-> <<>>, ret |-> None,
           exc |-> "", trace |-> <<>>, obj |-> None]

MaxOf(S) == IF S = {} THEN 0 ELSE CHOOSE x \in S : \A y \in S : y <= x

\* The state after construction, over a store that earlier requests have
\* committed: the sessions are fresh, no call is in progress.
InitWith(store, commits, managers) ==
    /\ COMMIT_SESSION \in commits
    /\ transaction \in managers
    /\ db = store
    /\ sess = [s \in Sessions |-> CleanSession]
    /\ nextId = [t \in Tables |-> MaxOf({r.id : r \in store[t]}) + 1]
    /\ pc = [s \in Sessions |-> Idle]
    /\ serial = TRUE
    /\ last = NoCall

\* A request is in progress while it is inside a multi-step call or holds
\* uncommitted work.
InProgress(s) == pc[s] # Idle \/ sess[s] # CleanSession

\* serial stays TRUE as long as no request has acted while another one was
\* in progress.
Step(s) == serial' = (serial /\ \A o \in Sessions \ {s} : ~InProgress(o))

\* The framework ends a request by committing its session.
EndRequest(s) ==
    /\ pc[s] = Idle
    /\ sess[s] # CleanSession
    /\ Return(s, SessionCommit(Begin(s)), "end_request", <<>>, None)
    /\ Step(s)
    /\ UNCHANGED pc

\* A lookup call: the session autoflushes, the outcome is returned.
Lookup(s, op, args, outcomes) ==
    \E o \in outcomes :
        /\ pc[s] = Idle
        /\ Return(s, Raise(Autoflush(Begin(s)), o.exc), op, args, o.val)
        /\ Step(s)
        /\ UNCHANGED pc

----------------------------------------------------------------------------
(* SQLAlchemyUserMixin                                                     *)

Providers == {"p1", "p2"}
Uids == {IntUid(7), StrUid("7"), StrUid("x")}
Passwords == {"absent", "usable", "unusable"}

\* User tables the application may have set up: user 1 has no usable
\* password; user 2 has one, has none, or is of a model without the method.
UserStores == {{[id |-> 1, pw |-> "unusable"], [id |-> 2, pw |-> p]} : p \in Passwords}

Users(s) == View(db, sess[s], "user")

\* allowed_to_disconnect requiring a password and another link.
allowed_to_disconnect_and(links, user, backend_name, association_id) ==
    LET qs0 == IF association_id # None
               THEN {l \in links : l.id # The(association_id)}
               ELSE {l \in links : l.provider # backend_name}
        qs == {l \in qs0 : l.user = user.id}
        valid_password == IF user.pw # "absent" THEN user.pw = "usable" ELSE TRUE
    IN  valid_password /\ Cardinality(qs) > 0

allowed_to_disconnect(links, user, backend_name, association_id) ==
    LET qs0 == IF association_id # None
               THEN {l \in links : l.id # The(association_id)}
               ELSE {l \in links : l.provider # backend_name}
        qs == {l \in qs0 : l.user = user.id}
        valid_password == IF user.pw # "absent" THEN user.pw = "usable" ELSE TRUE
        qs_count == Cardinality(qs)
    IN  valid_password \/ qs_count > 0

AllowedToDisconnect(s) ==
    \E user \in Users(s), backend_name \in Providers,
       association_id \in {None} \cup {Some(i) : i \in 0..MaxId} :
        LET m == Autoflush(Begin(s))
        IN  /\ pc[s] = Idle
            /\ Return(s, m, "allowed_to_disconnect",
                      [user |-> user, backend_name |-> backend_name,
                       association_id |-> association_id],
                      Some(allowed_to_disconnect(Query(m, "link"), user,
                                                 backend_name, association_id)))
            /\ Step(s)
            /\ UNCHANGED pc

disconnect(m, entry, fo) == _flush(SessionDelete(m, "link", entry), fo)

Disconnect(s) ==
    \E entry \in View(db, sess[s], "link"), fo \in FlushOutcomes :
        /\ pc[s] = Idle
        /\ Return(s, disconnect(Begin(s), entry, fo), "disconnect",
                  [entry |-> entry, fo |-> fo], None)
        /\ Step(s)
        /\ UNCHANGED pc

\* The outcomes of get_social_auth: the IndexError handler returns None.
get_social_auth(m, provider, uid) ==
    LET u == CoerceUid(uid)
        found == scalar({r \in Query(m, "link") : r.provider = provider /\ r.uid = u})
    IN  {IF o.exc = "IndexError" THEN [exc |-> "", val |-> None] ELSE o : o \in found}

GetSocialAuth(s) ==
    \E provider \in Providers, uid \in Uids :
        LET m == Autoflush(Begin(s))
        IN  \E o \in get_social_auth(m, provider, uid) :
                /\ pc[s] = Idle
                /\ Return(s, Raise(m, o.exc), "get_social_auth",
                          [provider |-> provider, uid |-> uid], o.val)
                /\ Step(s)
                /\ UNCHANGED pc

NewLink(user, uid, provider) ==
    [id |-> 0, provider |-> provider,
     uid |-> IF ~IsString(uid) THEN str(uid.int) ELSE uid.str, user |-> user.id]

\* create_social_auth with uid and provider passed in each other's place.
create_social_auth_swapped(m, user, uid, provider, fo) ==
    _new_instance(m, "link",
                  [NewLink(user, uid, provider) EXCEPT !.uid = provider,
                                                       !.provider = CoerceUid(uid)],
                  fo)

create_social_auth(m, user, uid, provider, fo) ==
    _new_instance(m, "link", NewLink(user, uid, provider), fo)

CreateSocialAuthOf(s, uids, providers) ==
    \E user \in Users(s), uid \in uids, provider \in providers, fo \in FlushOutcomes :
        LET m == create_social_auth(Begin(s), user, uid, provider, fo)
        IN  /\ pc[s] = Idle
            /\ nextId["link"] <= MaxId
            /\ ~Blocked(s, "link", NewLink(user, uid, provider))
            /\ Return(s, m, "create_social_auth",
                      [user |-> user, uid |-> uid, provider |-> provider, fo |-> fo],
                      m.obj)
            /\ Step(s)
            /\ UNCHANGED pc

\* Links are created under the integer 7 and the text "7", the two uids
\* that are stored as the same text, with either provider.
CreateSocialAuth(s) == CreateSocialAuthOf(s, {IntUid(7), StrUid("7")}, Providers)

\* The user-link operations over a store that starts with users only.
InitLink ==
    InitWith([EmptyTables EXCEPT !["user"] =
                 {[id |-> 1, pw |-> "unusable"], [id |-> 2, pw |-> "usable"]}],
             BOOLEAN, BOOLEAN)

NextLink ==
    \E s \in {"s1"} :
        \/ CreateSocialAuth(s)
        \/ GetSocialAuth(s)
        \/ Disconnect(s)
        \/ EndRequest(s)

SpecLink == InitLink /\ [][NextLink]_vars

\* The text a caller's uid is stored and looked up as.
TextOf(uid) == IF IsString(uid) THEN uid.str ELSE IF uid.int = 7 THEN "7" ELSE "?"

\* What get_social_auth(provider, uid) gives the session that has just
\* called create_social_auth(user, uid, provider): a link with that
\* provider, that uid as text and that user.
GetReturnsCreated ==
    \A o \in get_social_auth(Begin(last.s), last.args.provider, last.args.uid) :
        /\ o.exc = ""
        /\ o.val # None
        /\ The(o.val).provider = last.args.provider
        /\ The(o.val).uid = TextOf(last.args.uid)
        /\ The(o.val).user = last.args.user.id

\* C5: create_social_auth(user, uid, provider) for a (provider, uid) pair
\* that no link the session sees holds (uid compared as text) returns
\* normally when its flush goes through, and whenever it has returned
\* normally get_social_auth(provider, uid) returns a link whose provider,
\* uid (as text) and user are the ones passed to create_social_auth.
C5_CreateThenGet ==
    [][(last'.op = "create_social_auth") =>
          /\ (/\ last'.args.fo = "ok"
              /\ \A l \in View(db, sess[last'.s], "link") :
                    ~(l.provider = last'.args.provider
                      /\ l.uid = TextOf(last'.args.uid)))
             => last'.exc = ""
          /\ last'.exc = "" => GetReturnsCreated']_vars

\* C5 witness: a link created from an integer uid, flushed but not committed.
C5_Witness ==
    /\ last.op = "create_social_auth" /\ last.exc = ""
    /\ ~IsString(last.args.uid)
    /\ ~COMMIT_SESSION
    /\ sess[last.s].ins["link"] # {}

\* The session calls _flush made, given the call that preceded it.
FlushCalls == SubSeq(last.trace, 2, Len(last.trace))

\* C9: _flush flushes first; when the flush succeeds it does nothing else;
\* when the flush raises AssertionError it swallows it and commits exactly
\* once, through transaction.manager when the package is there and through
\* the session otherwise; any other failure propagates with no commit.
C9_FlushOrCommit ==
    (last.op = "disconnect" \/ (last.op = "create_social_auth" /\ ~COMMIT_SESSION)) =>
        CASE last.args.fo = "ok" -> FlushCalls = <<"flush">>
          [] last.args.fo = "AssertionError" ->
                /\ FlushCalls = <<"flush", IF transaction THEN "manager.commit" ELSE "commit">>
                /\ last.exc # "AssertionError"
          [] OTHER -> FlushCalls = <<"flush">> /\ last.exc = last.args.fo

\* C9 witness: a disconnect whose flush raised AssertionError and that then
\* committed through the transaction manager.
C9_Witness ==
    /\ last.op = "disconnect" /\ last.args.fo = "AssertionError"
    /\ transaction
    /\ last.exc = ""
    /\ last.args.entry \notin db["link"]


----------------------------------------------------------------------------
(* allowed_to_disconnect over stores of links                              *)

\* Link tables earlier requests may have committed: each primary key is
\* free or holds a link of either provider and either user.
LinkStores ==
    {{[id |-> i, provider |-> f[i][1], uid |-> str(i), user |-> f[i][2]] :
          i \in {j \in 1..MaxId : f[j][1] # "-"}} :
       f \in [1..MaxId -> (Providers \cup {"-"}) \X {1, 2}]}

InitAllowed ==
    \E users \in UserStores, links \in LinkStores :
        InitWith([EmptyTables EXCEPT !["user"] = users, !["link"] = links],
                 {TRUE}, {FALSE})

NextAllowed ==
    \E s \in {"s1"} :
        \/ AllowedToDisconnect(s)
        \/ Disconnect(s)
        \/ EndRequest(s)

SpecAllowed == InitAllowed /\ [][NextAllowed]_vars

\* The links of a user left once the one being removed is excluded.
Remaining(links, user, backend_name, association_id) ==
    {l \in links :
        /\ l.user = user.id
        /\ IF association_id = None THEN l.provider # backend_name
                                    ELSE l.id # The(association_id)}

\* C1: allowed_to_disconnect(user, backend_name, association_id) returns
\* false exactly when the user has no usable password and has no link left
\* once the one being removed is excluded; it returns true otherwise.  (A
\* user model without has_usable_password counts as having a password.)
C1_AllowedIff ==
    last.op = "allowed_to_disconnect" =>
        ((last.ret = Some(FALSE)) <=>
            /\ last.args.user.pw = "unusable"
            /\ Remaining(View(db, sess[last.s], "link"), last.args.user,
                         last.args.backend_name, last.args.association_id) = {})

\* C1 witness: the call refused to remove the only link, named by its id, of
\* a user without a usable password.
C1_Witness ==
    /\ last.op = "allowed_to_disconnect"
    /\ last.ret = Some(FALSE)
    /\ last.args.association_id # None
    /\ \E l \in View(db, sess[last.s], "link") :
          l.user = last.args.user.id /\ l.id = The(last.args.association_id)

----------------------------------------------------------------------------
(* Disconnects guarded by allowed_to_disconnect, two requests at a time    *)

\* The user whose links the requests remove: one without a usable password.
Victim == [id |-> 1, pw |-> "unusable"]

LinksOf(user, rows) == {l \in rows : l.user = user.id}

\* The request asks whether it may remove entry, and goes on only when the
\* answer is true.
CheckDisconnect(s) ==
    \E entry \in LinksOf(Victim, View(db, sess[s], "link")) :
        LET m == Autoflush(Begin(s))
            ok == allowed_to_disconnect(Query(m, "link"), Victim, entry.provider,
                                        Some(entry.id))
        IN  /\ pc[s] = Idle
            /\ Return(s, m, "allowed_to_disconnect",
                      [user |-> Victim, backend_name |-> entry.provider,
                       association_id |-> Some(entry.id)], Some(ok))
            /\ pc' = IF ok THEN [pc EXCEPT ![s] = [at |-> "allowed", entry |-> entry]]
                            ELSE pc
            /\ Step(s)

GuardedDisconnect(s) ==
    \E fo \in FlushOutcomes :
        /\ pc[s].at = "allowed"
        /\ Return(s, disconnect(Begin(s), pc[s].entry, fo), "disconnect",
                  [entry |-> pc[s].entry, fo |-> fo], None)
        /\ pc' = [pc EXCEPT ![s] = Idle]
        /\ Step(s)

InitGuard ==
    \E links \in {S \in LinkStores : LinksOf(Victim, S) # {}} :
        InitWith([EmptyTables EXCEPT
                     !["user"] = {Victim, [id |-> 2, pw |-> "usable"]},
                     !["link"] = links],
                 BOOLEAN, BOOLEAN)

NextGuard ==
    \E s \in Sessions :
        \/ CheckDisconnect(s)
        \/ GuardedDisconnect(s)
        \/ EndRequest(s)

SpecGuard == InitGuard /\ [][NextGuard]_vars

\* The user still has a link, in the committed store and in every session.
StillLinked ==
    /\ LinksOf(Victim, db["link"]) # {}
    /\ \A s \in Sessions : LinksOf(Victim, View(db, sess[s], "link")) # {}

\* C10 as claimed: with every disconnect guarded by allowed_to_disconnect,
\* the user without a usable password keeps at least one link in every
\* reachable state, also when two requests interleave.
C10_LockOutSafe == StillLinked

\* With the requests serialised, each one checking, disconnecting and
\* committing with no other request acting in between, the user keeps at
\* least one link.
SerialLockOutSafe == serial => StillLinked

\* A serialised run in which a guarded disconnect has removed a link and
\* committed it.
SerialDisconnectCommitted ==
    /\ serial
    /\ last.op = "end_request"
    /\ nextId["link"] > Cardinality(db["link"]) + 1
    /\ LinksOf(Victim, db["link"]) # {}


----------------------------------------------------------------------------
(* SQLAlchemyNonceMixin                                                    *)

NonceKwargs ==
    {[server_url |-> "u1", timestamp |-> ts, salt |-> "a"] : ts \in {10, 20}}

NewNonce(kwargs) ==
    [id |-> 0, server_url |-> kwargs.server_url, timestamp |-> kwargs.timestamp,
     salt |-> kwargs.salt]

MatchesNonce(r, kwargs) ==
    /\ r.server_url = kwargs.server_url
    /\ r.timestamp = kwargs.timestamp
    /\ r.salt = kwargs.salt

\* use, the body of its try: the lookup.  found is what scalar gave.
NonceUseTry(s) ==
    \E kwargs \in NonceKwargs :
        LET m == Autoflush(Begin(s))
        IN  \E found \in scalar({r \in Query(m, "nonce") : MatchesNonce(r, kwargs)}) :
                /\ pc[s] = Idle
                /\ Return(s, Raise(m, found.exc), "use.try", kwargs, found.val)
                /\ pc' = [pc EXCEPT ![s] = [at |-> "use", kwargs |-> kwargs,
                                            found |-> found]]
                /\ Step(s)

\* use, the rest: return what the lookup gave, or, in the IndexError
\* handler, create the row.
use(m, kwargs, found, fo) ==
    IF found.exc = "IndexError"
    THEN _new_instance(m, "nonce", NewNonce(kwargs), fo)
    ELSE m

NonceUseReturn(s) ==
    \E fo \in FlushOutcomes :
        LET kwargs == pc[s].kwargs
            found == pc[s].found
            m == use(Begin(s), kwargs, found, fo)
        IN  /\ pc[s].at = "use"
            /\ found.exc = "IndexError" =>
                  nextId["nonce"] <= MaxId /\ ~Blocked(s, "nonce", NewNonce(kwargs))
            /\ Return(s, m, "use", [kwargs |-> kwargs, found |-> found.val],
                      IF found.exc = "IndexError" THEN m.obj ELSE found.val)
            /\ pc' = [pc EXCEPT ![s] = Idle]
            /\ Step(s)

\* nonce.save() on an instance the caller built.
SaveNonce(s) ==
    \E kwargs \in NonceKwargs, fo \in FlushOutcomes :
        LET m == save(Begin(s), "nonce", NewNonce(kwargs), fo)
        IN  /\ pc[s] = Idle
            /\ nextId["nonce"] <= MaxId
            /\ ~Blocked(s, "nonce", NewNonce(kwargs))
            /\ Return(s, m, "save", [kwargs |-> kwargs, fo |-> fo], m.obj)
            /\ Step(s)
            /\ UNCHANGED pc

InitNonce == InitWith(EmptyTables, BOOLEAN, {FALSE})

NextNonce ==
    \E s \in Sessions :
        \/ NonceUseTry(s)
        \/ NonceUseReturn(s)
        \/ SaveNonce(s)
        \/ EndRequest(s)

SpecNonce == InitNonce /\ [][NextNonce]_vars

\* The rows of a session's view that carry the triple.
NonceRows(s, kwargs) == {r \in View(db, sess[s], "nonce") : MatchesNonce(r, kwargs)}

\* C2: whenever use(server_url, timestamp, salt) has returned, exactly one
\* nonce row with that triple exists and the call returned a row carrying it.
C2_UseGetOrCreate ==
    (last.op = "use" /\ last.exc = "") =>
        /\ last.ret # None
        /\ MatchesNonce(The(last.ret), last.args.kwargs)
        /\ Cardinality(NonceRows(last.s, last.args.kwargs)) = 1

\* C3: when a caller of use returns after it and a concurrent caller both
\* found no row for the same triple, at most one row with the triple is
\* stored, and the caller either inserted that row or failed with an
\* integrity error because the other caller's row was there.
C3_UniqueBackstop ==
    /\ \A kwargs \in NonceKwargs :
          Cardinality({r \in db["nonce"] : MatchesNonce(r, kwargs)}) <= 1
    /\ (/\ last.op = "use"
        /\ last.args.found = None
        /\ \E o \in Sessions \ {last.s} :
              /\ pc[o].at = "use"
              /\ pc[o].kwargs = last.args.kwargs
              /\ pc[o].found.val = None)
       => \/ /\ last.exc = ""
             /\ last.ret # None
             /\ The(last.ret) \in NonceRows(last.s, last.args.kwargs)
          \/ /\ last.exc = "IntegrityError"
             /\ \E r \in db["nonce"] : MatchesNonce(r, last.args.kwargs)


----------------------------------------------------------------------------
(* SQLAlchemyAssociationMixin                                              *)

B64Alphabet ==
    <<"A", "B", "C", "D", "E", "F", "G", "H", "I", "J", "K", "L", "M", "N", "O", "P",
      "Q", "R", "S", "T", "U", "V", "W", "X", "Y", "Z", "a", "b", "c", "d", "e", "f",
      "g", "h", "i", "j", "k", "l", "m", "n", "o", "p", "q", "r", "s", "t", "u", "v",
      "w", "x", "y", "z", "0", "1", "2", "3", "4", "5", "6", "7", "8", "9", "+", "/">>

\* Base64 of a sequence of bytes, three bytes to four characters, padded.
RECURSIVE b64(_)
b64(bs) ==
    IF bs = <<>> THEN ""
    ELSE LET n == Len(bs)
             b1 == bs[1]
             b2 == IF n >= 2 THEN bs[2] ELSE 0
             b3 == IF n >= 3 THEN bs[3] ELSE 0
         IN  B64Alphabet[(b1 \div 4) + 1]
             \o B64Alphabet[((b1 % 4) * 16 + (b2 \div 16)) + 1]
             \o (IF n >= 2 THEN B64Alphabet[((b2 % 16) * 4 + (b3 \div 64)) + 1] ELSE "=")
             \o (IF n >= 3 THEN B64Alphabet[(b3 % 64) + 1] ELSE "=")
             \o b64(SubSeq(bs, 4, n))

\* base64.encodebytes(secret).decode(): a line of base64 per 57 bytes, each
\* ended by a newline.
RECURSIVE encodebytes(_)
encodebytes(bs) ==
    IF bs = <<>> THEN ""
    ELSE IF Len(bs) <= 57 THEN b64(bs) \o "\n"
    ELSE b64(SubSeq(bs, 1, 57)) \o "\n" \o encodebytes(SubSeq(bs, 58, Len(bs)))

Handles == {"h1", "h2"}

\* The associations a caller hands to store: handle, raw secret, issued,
\* lifetime, type.
Associations ==
    {[handle |-> h, secret |-> v[1], issued |-> v[2], lifetime |-> 60,
      assoc_type |-> "HMAC-SHA1"] :
        h \in Handles, v \in {<<(<<1, 2>>), 100>>, <<(<<255>>), 200>>}}

ServerUrls == {"u1"}

\* cls(server_url=server_url, handle=association.handle): the other columns
\* are not set yet.
NewAssociation(server_url, handle) ==
    [id |-> 0, server_url |-> server_url, handle |-> handle, secret |-> "",
     issued |-> 0, lifetime |-> 0, assoc_type |-> ""]

\* store after its lookup gave found: the IndexError handler builds a new
\* instance; the columns are then set on whatever assoc is, and a None has
\* no attribute to set.
store(m, server_url, association, found, fo) ==
    LET assoc == IF found.exc = "IndexError"
                 THEN Some(NewAssociation(server_url, association.handle))
                 ELSE found.val
    IN  IF assoc = None THEN Raise(m, "AttributeError")
        ELSE _save_instance(m, "assoc",
                 [The(assoc) EXCEPT !.secret = encodebytes(association.secret),
                                    !.issued = association.issued,
                                    !.lifetime = association.lifetime,
                                    !.assoc_type = association.assoc_type],
                 fo)

AssociationStoreOf(s, associations) ==
    \E server_url \in ServerUrls, association \in associations, fo \in FlushOutcomes :
        LET m0 == Autoflush(Begin(s))
        IN  \E found \in scalar({r \in Query(m0, "assoc") :
                                  /\ r.server_url = server_url
                                  /\ r.handle = association.handle}) :
                /\ pc[s] = Idle
                /\ Return(s, store(m0, server_url, association, found, fo), "store",
                          [server_url |-> server_url, association |-> association,
                           found |-> found.val, fo |-> fo],
                          None)
                /\ Step(s)
                /\ UNCHANGED pc

\* Association.get(server_url=..., handle=...)
get(m, server_url, handle) ==
    scalar({r \in Query(m, "assoc") : r.server_url = server_url /\ r.handle = handle})

AssociationGet(s) ==
    \E server_url \in ServerUrls, handle \in Handles :
        Lookup(s, "get", [server_url |-> server_url, handle |-> handle],
               get(Begin(s), server_url, handle))

AssociationStore(s) == AssociationStoreOf(s, Associations)

\* association.save() on an instance the caller built in full.
SaveAssociation(s) ==
    \E server_url \in ServerUrls, association \in Associations, fo \in FlushOutcomes :
        LET row == [NewAssociation(server_url, association.handle) EXCEPT
                       !.secret = encodebytes(association.secret),
                       !.issued = association.issued,
                       !.lifetime = association.lifetime,
                       !.assoc_type = association.assoc_type]
            m == save(Begin(s), "assoc", row, fo)
        IN  /\ pc[s] = Idle
            /\ nextId["assoc"] <= MaxId
            /\ ~Blocked(s, "assoc", row)
            /\ Return(s, m, "save", [row |-> row, fo |-> fo], m.obj)
            /\ Step(s)
            /\ UNCHANGED pc

InitAssoc == InitWith(EmptyTables, BOOLEAN, {FALSE})

NextAssoc ==
    \E s \in {"s1"} :
        \/ AssociationStore(s)
        \/ AssociationGet(s)
        \/ SaveAssociation(s)
        \/ EndRequest(s)

SpecAssoc == InitAssoc /\ [][NextAssoc]_vars

\* C4: store(server_url, association) with a flush that the environment
\* lets through inserts the row when the key is new and overwrites it in
\* place when it exists: afterwards exactly one row holds the key, with the
\* encoded secret, issued, lifetime and type of this call.
C4_StoreGetOrCreate ==
    (last.op = "store" /\ last.args.fo = "ok") =>
        LET a == last.args.association
            rows == {r \in View(db, sess[last.s], "assoc") :
                        r.server_url = last.args.server_url /\ r.handle = a.handle}
        IN  /\ last.exc = ""
            /\ Cardinality(rows) = 1
            /\ \A r \in rows :
                  /\ r.secret = (IF a.secret = <<255>> THEN "/w==\n" ELSE "AQI=\n")
                  /\ r.issued = a.issued
                  /\ r.lifetime = a.lifetime
                  /\ r.assoc_type = a.assoc_type

\* A store call that found the row: it overwrote it in place.
C4_UpdateInPlace ==
    (last.op = "store" /\ last.args.fo = "ok" /\ last.args.found # None) =>
        LET a == last.args.association
            rows == {r \in View(db, sess[last.s], "assoc") :
                        r.server_url = last.args.server_url /\ r.handle = a.handle}
        IN  /\ last.exc = ""
            /\ Cardinality(rows) = 1
            /\ \A r \in rows :
                  /\ r.id = The(last.args.found).id
                  /\ r.secret = (IF a.secret = <<255>> THEN "/w==\n" ELSE "AQI=\n")
                  /\ r.issued = a.issued


----------------------------------------------------------------------------
(* Single-row lookups: Association.get, get_user, SQLAlchemyCodeMixin,     *)
(* SQLAlchemyPartialMixin                                                  *)

Codes == {"c1", "c2"}
Tokens == {"t1", "t2"}
Pks == {1, 2}

\* session.get(user_model, pk): the row of that primary key, or None.
get_user(m, pk) == scalar({r \in Query(m, "user") : r.id = pk})

get_code(m, code) == scalar({r \in Query(m, "code") : r.code = code})

\* load as if it asked for exactly one row.
load_exactly_one(m, token) ==
    IF {r \in Query(m, "partial") : r.token = token} = {}
    THEN {[exc |-> "NoResultFound", val |-> None]}
    ELSE scalar({r \in Query(m, "partial") : r.token = token})

load(m, token) == scalar({r \in Query(m, "partial") : r.token = token})

\* destroy without its test of what load returned.
destroy_unguarded(m, partial) ==
    IF partial # None THEN SessionDelete(m, "partial", The(partial))
    ELSE Raise(m, "UnmappedInstanceError")

\* destroy once load has returned partial.
destroy(m, partial) ==
    IF partial # None THEN SessionDelete(m, "partial", The(partial)) ELSE m

GetUser(s) ==
    \E pk \in Pks : Lookup(s, "get_user", [pk |-> pk], get_user(Begin(s), pk))

GetCode(s) ==
    \E code \in Codes : Lookup(s, "get_code", [code |-> code], get_code(Begin(s), code))

PartialLoad(s) ==
    \E token \in Tokens : Lookup(s, "load", [token |-> token], load(Begin(s), token))

PartialDestroy(s) ==
    \E token \in Tokens :
        \E found \in load(Begin(s), token) :
            /\ pc[s] = Idle
            /\ Return(s, IF found.exc # "" THEN Raise(Autoflush(Begin(s)), found.exc)
                                          ELSE destroy(Autoflush(Begin(s)), found.val),
                      "destroy", [token |-> token], None)
            /\ Step(s)
            /\ UNCHANGED pc

\* Stores earlier requests may have committed: every table is empty or
\* holds a row or two; two codes may share their code, two partials their
\* token.
LookupStores ==
    {[user |-> u, link |-> l, nonce |-> {}, assoc |-> a, code |-> c, partial |-> p] :
        u \in {{}, {Victim}},
        l \in {{}, {[id |-> 1, provider |-> "p1", uid |-> "7", user |-> 1]}},
        a \in {{}, {[id |-> 1, server_url |-> "u1", handle |-> "h1", secret |-> "AQI=\n",
                     issued |-> 100, lifetime |-> 60, assoc_type |-> "HMAC-SHA1"]}},
        c \in {{}, {[id |-> 1, email |-> "a@x", code |-> "c1"]},
               {[id |-> 1, email |-> "a@x", code |-> "c1"],
                [id |-> 2, email |-> "b@x", code |-> "c1"]}},
        p \in {{}, {[id |-> 1, token |-> "t1", data |-> "{}", next_step |-> 0,
                     backend |-> "p1"]},
               {[id |-> 1, token |-> "t1", data |-> "{}", next_step |-> 0,
                 backend |-> "p1"],
                [id |-> 2, token |-> "t1", data |-> "{}", next_step |-> 1,
                 backend |-> "p2"]}}}

InitLookup == \E tables \in LookupStores : InitWith(tables, {TRUE}, {FALSE})

NextLookup ==
    \E s \in {"s1"} :
        \/ GetSocialAuth(s)
        \/ AssociationGet(s)
        \/ GetCode(s)
        \/ PartialLoad(s)
        \/ GetUser(s)
        \/ PartialDestroy(s)
        \/ EndRequest(s)

SpecLookup == InitLookup /\ [][NextLookup]_vars

\* The rows a session's queries return: its view less what it has marked
\* deleted, which a query flushes first.
Visible(d, ss, t) == {r \in View(d, ss, t) : r.id \notin ss.pdel[t]}

\* The rows that match the key of a lookup call c, in a session's eyes.
MatchSet(c, d, ss) ==
    CASE c.op = "get_social_auth" ->
            {r \in Visible(d, ss, "link") :
                r.provider = c.args.provider /\ r.uid = TextOf(c.args.uid)}
      [] c.op = "get" ->
            {r \in Visible(d, ss, "assoc") :
                r.server_url = c.args.server_url /\ r.handle = c.args.handle}
      [] c.op = "get_code" -> {r \in Visible(d, ss, "code") : r.code = c.args.code}
      [] c.op = "get_user" -> {r \in Visible(d, ss, "user") : r.id = c.args.pk}
      [] OTHER -> {r \in Visible(d, ss, "partial") : r.token = c.args.token}

\* The committed store, the rows every session sees and the key counters
\* are the same before and after the step.
StoreUnchanged ==
    /\ db' = db
    /\ nextId' = nextId
    /\ \A s \in Sessions : \A t \in Tables :
          Visible(db', sess'[s], t) = Visible(db, sess[s], t)

LookupOps == {"get_social_auth", "get", "get_code", "load", "get_user"}

\* C6: a single-row lookup (get_social_auth, Association.get, get_code,
\* load, get_user) whose key matches no row returns None, raises nothing and
\* leaves the store unchanged.
C6_NotFoundIsNone ==
    [][(last'.op \in LookupOps /\ MatchSet(last', db, sess[last'.s]) = {}) =>
          (last'.ret = None /\ last'.exc = "" /\ StoreUnchanged)]_vars

\* C6 witness: load returned None for the token of a partial that the same
\* session had destroyed and not yet committed, other rows being stored.
C6_Witness ==
    /\ last.op = "load" /\ last.ret = None /\ last.exc = ""
    /\ last.args.token = "t1"
    /\ sess[last.s].del["partial"] # {}
    /\ db["code"] # {}

\* C7: Partial.destroy(token) with a token that matches no partial raises
\* nothing and leaves every row of every table unchanged.
C7_DestroyMissingIsNoOp ==
    [][(last'.op = "destroy" /\ MatchSet(last', db, sess[last'.s]) = {}) =>
          (last'.exc = "" /\ StoreUnchanged)]_vars

\* C7 witness: destroy returned for a token no partial has, while partials
\* with another token are stored.
C7_Witness ==
    /\ last.op = "destroy" /\ last.exc = ""
    /\ last.args.token = "t2"
    /\ Visible(db, sess[last.s], "partial") # {}


----------------------------------------------------------------------------
(* Every path into _save_instance                                          *)

\* create_user(...): a new row of the user model.
CreateUser(s) ==
    \E pw \in {"usable"}, fo \in FlushOutcomes :
        LET m == _new_instance(Begin(s), "user", [id |-> 0, pw |-> pw], fo)
        IN  /\ pc[s] = Idle
            /\ nextId["user"] <= MaxId
            /\ Return(s, m, "create_user", [pw |-> pw, fo |-> fo], m.obj)
            /\ Step(s)
            /\ UNCHANGED pc

\* changed(user): the user, as the caller has modified it, is saved.
Changed(s) ==
    \E user \in Users(s), pw \in {"usable"}, fo \in FlushOutcomes :
        LET m == _save_instance(Begin(s), "user", [user EXCEPT !.pw = pw], fo)
        IN  /\ pc[s] = Idle
            /\ Return(s, m, "changed", [user |-> user, pw |-> pw, fo |-> fo], None)
            /\ Step(s)
            /\ UNCHANGED pc

\* code.save() on an instance the caller built.
SaveCode(s) ==
    \E code \in {"c1"}, email \in {"a@x"}, fo \in FlushOutcomes :
        LET row == [id |-> 0, email |-> email, code |-> code]
            m == save(Begin(s), "code", row, fo)
        IN  /\ pc[s] = Idle
            /\ nextId["code"] <= MaxId
            /\ ~Blocked(s, "code", row)
            /\ Return(s, m, "save", [row |-> row, fo |-> fo], m.obj)
            /\ Step(s)
            /\ UNCHANGED pc

\* The rows a session sees, over all tables.
Stored(s) ==
    Cardinality(View(db, sess[s], "user")) + Cardinality(View(db, sess[s], "link"))
    + Cardinality(View(db, sess[s], "assoc")) + Cardinality(View(db, sess[s], "code"))

\* The inserting calls stop once the store holds MaxId rows more than the
\* two it starts with.
Room(s) == Stored(s) < MaxId + 1

InitSave ==
    InitWith([EmptyTables EXCEPT
                 !["user"] = {Victim},
                 !["assoc"] = {[id |-> 1, server_url |-> "u1", handle |-> "h1",
                                secret |-> "AQI=\n", issued |-> 100, lifetime |-> 60,
                                assoc_type |-> "HMAC-SHA1"]}],
             BOOLEAN, {FALSE})

NextSave ==
    \E s \in {"s1"} :
        \/ Room(s) /\ CreateSocialAuthOf(s, {IntUid(7)}, {"p1"})
        \/ Room(s) /\ CreateUser(s)
        \/ Room(s) /\ SaveCode(s)
        \/ Changed(s)
        \/ AssociationStoreOf(s, {a \in Associations :
                                      a.handle = "h1" /\ a.issued = 200})
        \/ Disconnect(s)
        \/ EndRequest(s)

SpecSave == InitSave /\ [][NextSave]_vars

SaveOps == {"create_social_auth", "create_user", "changed", "store", "save"}

\* The instance the last call saved has been committed and the session
\* holds no write, pending or flushed, that is yet to be committed.
Durable ==
    /\ last.obj # None
    /\ \E t \in Tables : The(last.obj) \in db[t]
    /\ sess[last.s] = CleanSession

\* C8 as claimed: whenever a call that saves through _save_instance returns
\* normally, the instance is committed and no write is left in the session.
C8_SaveIsDurable ==
    (last.op \in SaveOps /\ last.exc = "") => Durable

\* C8 amended: with COMMIT_SESSION true, whenever a call that saves through
\* _save_instance returns normally, the instance is committed and no write
\* is left in the session.
C8_SaveIsDurableWhenCommitting ==
    (COMMIT_SESSION /\ last.op \in SaveOps /\ last.exc = "") => Durable

\* C8 witness: under COMMIT_SESSION, Association.store returned normally
\* in a session that held a flushed, uncommitted disconnect: the row it
\* overwrote is committed with the new values, and so is the disconnect.
C8_Witness ==
    /\ COMMIT_SESSION
    /\ last.op = "store" /\ last.exc = ""
    /\ last.obj # None
    /\ The(last.obj) \in db["assoc"]
    /\ The(last.obj).issued = 200
    /\ nextId["link"] > 1
    /\ db["link"] = {}
    /\ sess[last.s] = CleanSession

====
